---- MODULE Spec2Model ----
(***************************************************************************)
(* A model of mangadex_downloader/cli/command.py: the interactive          *)
(* pagination/selection prompt (BaseCommand, MangaDexCommand and the       *)
(* preview variants), the direct positional generator (_return_from), and  *)
(* the filter parsing of SearchMangaCommand.                               *)
(*                                                                         *)
(* Python strings are sequences of one-character strings, so that          *)
(* startswith, split, strip and the substring test are computed.           *)
(***************************************************************************)
EXTENDS Naturals, Sequences, FiniteSets, TLC

\* ------------------------------------------------------------------ bounds
\* Longest source sequence handed to the Paginator.
MaxSrc == 3
\* Largest page size (the `limit` argument of BaseCommand.__init__).
MaxLimit == 2
\* Number of lines a session reads from input_handle.
MaxInputs == 3
\* Item identities are 1..NumIds (fewer identities than items: duplicates).
NumIds == 2

\* ----------------------------------------------------------------- strings
Digit == <<"0", "1", "2", "3", "4", "5", "6", "7", "8", "9">>

\* str(pos) for a non-negative integer.
RECURSIVE IntToStr(_)
IntToStr(n) ==
  IF n < 10 THEN <<Digit[n + 1]>>
  ELSE IntToStr(n \div 10) \o <<Digit[(n % 10) + 1]>>

\* str.startswith
StartsWith(s, p) == Len(s) >= Len(p) /\ SubSeq(s, 1, Len(p)) = p

\* `p in s` for strings.
Contains(s, p) ==
  \E i \in 1..(Len(s) + 1) :
    i + Len(p) - 1 <= Len(s) /\ SubSeq(s, i, i + Len(p) - 1) = p

\* str.find: the first index at which p occurs in s, 0 when it does not.
Find(s, p) ==
  IF Contains(s, p)
  THEN CHOOSE i \in 1..(Len(s) + 1) :
         /\ i + Len(p) - 1 <= Len(s)
         /\ SubSeq(s, i, i + Len(p) - 1) = p
         /\ \A j \in 1..(i - 1) : SubSeq(s, j, j + Len(p) - 1) # p
  ELSE 0

\* s.split(p, maxsplit=1)[1] when p occurs in s.
AfterFirst(s, p) == SubSeq(s, Find(s, p) + Len(p), Len(s))

\* s.split(p, maxsplit=1)[0]
BeforeFirst(s, p) == IF Contains(s, p) THEN SubSeq(s, 1, Find(s, p) - 1) ELSE s

RECURSIVE LStrip(_)
LStrip(s) == IF s # <<>> /\ Head(s) = " " THEN LStrip(Tail(s)) ELSE s

RECURSIVE RStrip(_)
RStrip(s) ==
  IF s # <<>> /\ s[Len(s)] = " " THEN RStrip(SubSeq(s, 1, Len(s) - 1)) ELSE s

\* str.strip
Strip(s) == RStrip(LStrip(s))

S_next == <<"n", "e", "x", "t">>
S_previous == <<"p", "r", "e", "v", "i", "o", "u", "s">>
S_preview == <<"p", "r", "e", "v", "i", "e", "w">>
S_star == <<"*">>

\* ---------------------------------------------------------------- variants
Variants == {"Base", "MangaDex", "Manga", "MDList", "MangaLibrary"}

\* Whether the class derives from MangaDexCommand (its prompt wraps the answer).
IsMangaDex(v) == v # "Base"

\* Mutant: every variant declares preview support.
PreviewAlways(v) == TRUE

\* preview(): BaseCommand returns False, MangaCommand and MDListCommand True.
Preview(v) == v \in {"Manga", "MDList", "MangaLibrary"}

\* on_empty_error: `pass` in BaseCommand, args_parser.error in MangaLibraryCommand.
OnEmptyExits(v) == v = "MangaLibrary"

\* Mutant: the preview hook never raises.
OnPreviewQuiet(v, pil) == ""

\* on_preview: the exception it raises ("" for none). MangaCommand calls
\* preview_cover_manga, which raises PillowNotInstalled when PIL cannot be
\* imported; MDListCommand calls preview_list, which prints.
OnPreview(v, pil) ==
  IF v \in {"Manga", "MangaLibrary"} /\ ~pil THEN "PillowNotInstalled" ELSE ""

\* ------------------------------------------------------------------- state
VARIABLES
  source,        \* the items the iterator produces: source[i] is item i's identity
  limit,         \* Paginator page size
  variant,       \* the command class
  pillow,        \* whether `from PIL import Image` succeeds
  input_pos,     \* prompt()'s argument; <<>> is the falsy None
  pc,            \* unbuilt | init | await | returned | raised | exit |
                 \* gen_ready | gen_loop | gen_done
  choices,       \* the dict `choices`: label -> item
  text_choices,  \* self._text_choices, one <<label, item>> per rendered line
  pgPage,        \* Paginator position: the number of the page last returned
  action,        \* the local `action` of prompt(): unset | next | previous
  answer,        \* the line last read by input_handle
  result,        \* what prompt() returned
  err,           \* the exception that propagated out of prompt(), "" for none
  printed,       \* messages _error printed while the last step ran
  fatal,         \* the message given to args_parser.error, "" for none
  calls,         \* Paginator methods called while the last step ran
  caught,        \* the Paginator exception caught while the last step ran
  previews,      \* items given to on_preview while the last step ran
  screen,        \* the text _print_choices printed last
  nreads,        \* lines read so far
  nempty,        \* on_empty_error calls so far
  ncalls,        \* Paginator calls so far
  yielded,       \* items _return_from has yielded
  ids,           \* the list `ids` of MangaDexCommand.prompt: identities it yielded
  filters,       \* args.search_filter
  fi,            \* number of filter tokens consumed
  filter_kwargs, \* the dict filter_kwargs: key -> value
  orders,        \* the dict orders
  fpc,           \* idle | parse | done
  cover_id,      \* CoverArt's argument cover_id
  data,          \* CoverArt's argument data
  server,        \* the resource get_cover_art(cover_id) answers with
  cover,         \* the attributes of the CoverArt object set so far
  fetches,       \* the arguments of the get_cover_art calls made
  cpc,           \* idle | new | built | raised
  cerr           \* the exception that left CoverArt.__init__, "" for none

engineVars ==
  <<source, limit, variant, pillow, input_pos, pc, choices, text_choices, pgPage,
    action, answer, result, err, printed, fatal, calls, caught, previews, screen,
    nreads, nempty, ncalls, yielded, ids>>

filterVars == <<filters, fi, filter_kwargs, orders, fpc>>

coverVars == <<cover_id, data, server, cover, fetches, cpc, cerr>>

vars ==
  <<source, limit, variant, pillow, input_pos, pc, choices, text_choices, pgPage,
    action, answer, result, err, printed, fatal, calls, caught, previews, screen,
    nreads, nempty, ncalls, yielded, ids, filters, fi, filter_kwargs, orders, fpc,
    cover_id, data, server, cover, fetches, cpc, cerr>>

\* The empty dict.
EmptyDict == [k \in {} |-> <<>>]

\* --------------------------------------------------------------- Paginator
\* Item number i of the source: an object with an identity field.
Item(i) == [ix |-> i, id |-> source[i]]

\* The (position, item) pairs of page p; positions count from 0 over the source.
PagePairs(p) ==
  LET first == (p - 1) * limit + 1
      last == IF p * limit < Len(source) THEN p * limit ELSE Len(source)
  IN [j \in 1..(last - first + 1) |-> <<first + j - 2, Item(first + j - 1)>>]

\* Paginator.next(): the next page, or IteratorEmpty past the last item.
PaginatorNext(page) ==
  IF page * limit >= Len(source)
  THEN [exc |-> "IteratorEmpty", page |-> page, pairs |-> <<>>]
  ELSE [exc |-> "", page |-> page + 1, pairs |-> PagePairs(page + 1)]

\* Paginator.previous(): the page before the last one returned; out of range
\* before any page was fetched, and e (IteratorEmpty or IndexError) on page one.
PaginatorPrevious(page, e) ==
  IF page = 0 THEN [exc |-> "IndexError", page |-> page, pairs |-> <<>>]
  ELSE IF page = 1 THEN [exc |-> e, page |-> page, pairs |-> <<>>]
  ELSE [exc |-> "", page |-> page - 1, pairs |-> PagePairs(page - 1)]

PreviousErrors == {"IteratorEmpty", "IndexError"}

\* What a failing call of the Paginator may raise at this position: previous()
\* on the first page raises either; every other failure is determined.
Raisable(page) == IF page = 1 THEN PreviousErrors ELSE {"IteratorEmpty"}

\* ------------------------------------------------------------- BaseCommand
\* _error: args_parser.error(message) when exit, else print.
Error(message, exit) ==
  IF exit THEN [fatal |-> message, printed |-> <<>>]
  ELSE [fatal |-> "", printed |-> <<message>>]

\* Mutant: the keys are one more than the positions.
RECURSIVE MergeShifted(_, _)
MergeShifted(ch, pairs) ==
  IF pairs = <<>> THEN ch
  ELSE LET k == IntToStr(Head(pairs)[1] + 1)
           it == Head(pairs)[2]
       IN MergeShifted([x \in (DOMAIN ch) \cup {k} |-> IF x = k THEN it ELSE ch[x]],
                       Tail(pairs))

\* Mutant: the dict is emptied before a page is merged.
MergeOnlyPage(ch, pairs) ==
  [x \in {IntToStr(pairs[j][1]) : j \in 1..Len(pairs)} |->
     LET j == CHOOSE i \in 1..Len(pairs) : IntToStr(pairs[i][1]) = x
     IN pairs[j][2]]

\* choices[str(pos)] = item for each pair, in order.
RECURSIVE Merge(_, _)
Merge(ch, pairs) ==
  IF pairs = <<>> THEN ch
  ELSE LET k == IntToStr(Head(pairs)[1])
           it == Head(pairs)[2]
       IN Merge([x \in (DOMAIN ch) \cup {k} |-> IF x = k THEN it ELSE ch[x]],
                Tail(pairs))

\* Mutant: the lines are numbered from the position after the item's.
RenderPairsFromOne(pairs) ==
  [j \in 1..Len(pairs) |-> <<IntToStr(pairs[j][1] + 1), pairs[j][2]>>]

\* text += f"({pos}). {item}\n" for each pair.
RenderPairs(pairs) ==
  [j \in 1..Len(pairs) |-> <<IntToStr(pairs[j][1]), pairs[j][2]>>]

\* Mutant: self._text_choices is cleared before the page is fetched.
InsertChoicesClearFirst(ch, text, page, act, e) ==
  LET r == IF act = "next" THEN PaginatorNext(page) ELSE PaginatorPrevious(page, e)
  IN IF r.exc # ""
     THEN [exc |-> r.exc, choices |-> ch, text |-> <<>>, page |-> r.page]
     ELSE [exc |-> "", choices |-> Merge(ch, r.pairs),
           text |-> RenderPairs(r.pairs), page |-> r.page]

\* _insert_choices(choices, action): func() raises before anything is assigned.
InsertChoices(ch, text, page, act, e) ==
  LET r == IF act = "next" THEN PaginatorNext(page) ELSE PaginatorPrevious(page, e)
  IN IF r.exc # ""
     THEN [exc |-> r.exc, choices |-> ch, text |-> text, page |-> r.page]
     ELSE [exc |-> "", choices |-> Merge(ch, r.pairs),
           text |-> RenderPairs(r.pairs), page |-> r.page]

\* _print_choices: the choices and the instruction lines.
PrintChoices(text) ==
  [choices |-> text,
   instructions |->
     <<"next", "previous">> \o (IF Preview(variant) THEN <<"preview NUMBER">> ELSE <<>>)]

NoScreen == [choices |-> <<>>, instructions |-> <<>>]

\* Return values of prompt().
None == [kind |-> "None", val |-> <<>>]
Generator == [kind |-> "generator", val |-> <<>>]

\* Mutant: MangaDexCommand.prompt hands the item back as it got it.
WrapAnswerItem(v, it) == [kind |-> "item", val |-> <<it>>]

\* The value prompt() returns for a chosen item: the item (BaseCommand), or
\* [answer.id] (MangaDexCommand, iter(answer) raising TypeError).
WrapAnswer(v, it) ==
  IF IsMangaDex(v) THEN [kind |-> "list", val |-> <<it.id>>]
  ELSE [kind |-> "item", val |-> <<it>>]

\* The handler an exception of the page fetch reaches in prompt().
CaughtMessage(exc) ==
  IF exc = "IteratorEmpty" THEN "There are no more results"
  ELSE "Choices are out of range, try again"

\* Which branch of the dispatch in prompt() takes the line.
Dispatch(a) ==
  IF StartsWith(a, S_preview) /\ Preview(variant) THEN "preview"
  ELSE IF StartsWith(a, S_next) THEN "next"
  ELSE IF StartsWith(a, S_previous) THEN "previous"
  ELSE "label"

\* Mutant: the text after 'preview' is not stripped.
PreviewLabelRaw(a) == AfterFirst(a, S_preview)

\* answer.split('preview', maxsplit=1)[1].strip()
PreviewLabel(a) == Strip(AfterFirst(a, S_preview))

\* ------------------------------------------------------------------ inputs
Labels == {IntToStr(i) : i \in 0..MaxSrc}

Lines ==
  Labels
    \cup {S_preview \o <<" ">> \o l : l \in Labels}
    \cup {S_next, S_previous, S_preview,
          S_next \o <<"p", "a", "g", "e">>, S_previous \o <<"1">>,
          S_preview \o <<"1">>, <<"x">>, <<>>}

DirectLabels == {IntToStr(0), IntToStr(1), IntToStr(MaxSrc - 1), <<"7">>, S_star}

\* Sources up to a renaming of the identities, which the program only compares:
\* each identity is one seen before or the next unused one.
Sources ==
  {s \in UNION {[1..n -> 1..NumIds] : n \in 0..MaxSrc} :
     \A i \in 1..Len(s) : s[i] = 1 \/ \E j \in 1..(i - 1) : s[j] >= s[i] - 1}

\* -------------------------------------------------------------------- Init
\* No CoverArt is being constructed.
CoverIdle ==
  /\ cover_id = "None"
  /\ data = [none |-> TRUE, d |-> EmptyDict]
  /\ server = EmptyDict
  /\ cover = EmptyDict
  /\ fetches = <<>>
  /\ cpc = "idle"
  /\ cerr = ""

FilterIdle ==
  /\ filters = <<>>
  /\ fi = 0
  /\ filter_kwargs = EmptyDict
  /\ orders = EmptyDict
  /\ fpc = "idle"

Init ==
  /\ source \in Sources
  /\ limit \in 1..MaxLimit
  /\ variant \in Variants
  /\ pillow \in (IF variant \in {"Manga", "MangaLibrary"} THEN BOOLEAN ELSE {TRUE})
  /\ input_pos \in {<<>>} \cup DirectLabels
  /\ pc = "init"
  /\ choices = EmptyDict
  /\ text_choices = <<>>
  /\ pgPage = 0
  /\ action = "unset"
  /\ answer = <<>>
  /\ result = None
  /\ err = ""
  /\ printed = <<>>
  /\ fatal = ""
  /\ calls = <<>>
  /\ caught = ""
  /\ previews = <<>>
  /\ screen = NoScreen
  /\ nreads = 0
  /\ nempty = 0
  /\ ncalls = 0
  /\ yielded = <<>>
  /\ ids = <<>>
  /\ FilterIdle
  /\ CoverIdle

config == <<source, limit, variant, pillow, input_pos>>

\* ----------------------------------------------------- interactive prompt
\* The tail of one pass of the `while True` of prompt(): the page fetch of
\* _insert_choices(choices, act) with its two handlers, then _print_choices and
\* input_handle. `pr` holds what the pass printed before the fetch.
Fetch(act, e, pr) ==
  LET r == InsertChoices(choices, text_choices, pgPage, act, e)
      m == IF r.exc = "" THEN [fatal |-> "", printed |-> <<>>]
           ELSE Error(CaughtMessage(r.exc), FALSE)
  IN /\ choices' = r.choices
     /\ text_choices' = r.text
     /\ pgPage' = r.page
     /\ calls' = <<act>>
     /\ ncalls' = ncalls + 1
     /\ caught' = r.exc
     /\ printed' = pr \o m.printed
     /\ fatal' = m.fatal
     /\ err' = ""
     /\ pc' = IF m.fatal # "" THEN "exit" ELSE "await"
     /\ screen' = IF m.fatal # "" THEN screen ELSE PrintChoices(r.text)

\* prompt() without input_pos, up to the first input_handle: the first page is
\* fetched; an empty source calls on_empty_error and returns None, which
\* MangaDexCommand.prompt then takes for an answer (iter(None) raises TypeError,
\* and None has no id).
PromptStart ==
  /\ pc = "init"
  /\ input_pos = <<>>
  /\ LET r == InsertChoices(choices, text_choices, pgPage, "next", "IteratorEmpty")
     IN /\ calls' = <<"next">>
        /\ ncalls' = ncalls + 1
        /\ choices' = r.choices
        /\ text_choices' = r.text
        /\ pgPage' = r.page
        /\ IF r.exc = "IteratorEmpty"
           THEN /\ nempty' = nempty + 1
                /\ screen' = screen
                /\ IF OnEmptyExits(variant)
                   THEN pc' = "exit" /\ fatal' = "empty" /\ err' = ""
                   ELSE /\ fatal' = ""
                        /\ IF IsMangaDex(variant)
                           THEN pc' = "raised" /\ err' = "AttributeError"
                           ELSE pc' = "returned" /\ err' = ""
           ELSE /\ nempty' = nempty
                /\ screen' = PrintChoices(r.text)
                /\ pc' = "await"
                /\ fatal' = ""
                /\ err' = ""
  /\ result' = None
  /\ printed' = <<>>
  /\ caught' = ""
  /\ previews' = <<>>
  /\ UNCHANGED <<config, action, answer, nreads, yielded, ids, filterVars, coverVars>>

\* A line that starts with 'preview', in a variant that supports preview.
AnswerPreview(a) ==
  /\ pc = "await"
  /\ nreads < MaxInputs
  /\ Dispatch(a) = "preview"
  /\ answer' = a
  /\ nreads' = nreads + 1
  /\ LET lab == PreviewLabel(a)
         found == lab \in DOMAIN choices
         m == IF found THEN [fatal |-> "", printed |-> <<>>]
              ELSE Error("Invalid choice, try again", FALSE)
         exc == IF found THEN OnPreview(variant, pillow) ELSE ""
     IN /\ previews' = IF found THEN <<choices[lab]>> ELSE <<>>
        /\ printed' = m.printed
        /\ fatal' = m.fatal
        /\ err' = exc
        /\ pc' = IF exc # "" THEN "raised" ELSE IF m.fatal # "" THEN "exit" ELSE "await"
        /\ screen' = IF exc # "" \/ m.fatal # "" THEN screen
                     ELSE PrintChoices(text_choices)
  /\ calls' = <<>>
  /\ caught' = ""
  /\ UNCHANGED <<config, choices, text_choices, pgPage, action, result, nempty,
                 ncalls, yielded, ids, filterVars, coverVars>>

\* A line that starts with 'next' or with 'previous'.
AnswerNavigate(a, e) ==
  /\ pc = "await"
  /\ nreads < MaxInputs
  /\ Dispatch(a) \in {"next", "previous"}
  /\ answer' = a
  /\ nreads' = nreads + 1
  /\ action' = Dispatch(a)
  /\ Fetch(Dispatch(a), e, <<>>)
  /\ previews' = <<>>
  /\ UNCHANGED <<config, result, nempty, yielded, ids, filterVars, coverVars>>

\* Any other line that is a key of choices: prompt() returns the item.
AnswerLabel(a) ==
  /\ pc = "await"
  /\ nreads < MaxInputs
  /\ Dispatch(a) = "label"
  /\ a \in DOMAIN choices
  /\ answer' = a
  /\ nreads' = nreads + 1
  /\ result' = WrapAnswer(variant, choices[a])
  /\ pc' = "returned"
  /\ printed' = <<>>
  /\ fatal' = ""
  /\ calls' = <<>>
  /\ caught' = ""
  /\ previews' = <<>>
  /\ err' = ""
  /\ UNCHANGED <<config, choices, text_choices, pgPage, action, screen, nempty,
                 ncalls, yielded, ids, filterVars, coverVars>>

\* Any other line that is no key of choices: the KeyError handler prints and sets
\* answer = None, and the pass goes on to _insert_choices(choices, action), with
\* the `action` an earlier pass left, or with none bound.
AnswerInvalid(a, e) ==
  /\ pc = "await"
  /\ nreads < MaxInputs
  /\ Dispatch(a) = "label"
  /\ a \notin DOMAIN choices
  /\ answer' = a
  /\ nreads' = nreads + 1
  /\ LET m == Error("Invalid choice, try again", FALSE)
     IN IF m.fatal # ""
        THEN /\ pc' = "exit"
             /\ fatal' = m.fatal
             /\ printed' = m.printed
             /\ err' = ""
             /\ calls' = <<>>
             /\ caught' = ""
             /\ UNCHANGED <<choices, text_choices, pgPage, ncalls, screen>>
        ELSE IF action = "unset"
        THEN /\ pc' = "raised"
             /\ err' = "UnboundLocalError"
             /\ fatal' = ""
             /\ printed' = m.printed
             /\ calls' = <<>>
             /\ caught' = ""
             /\ UNCHANGED <<choices, text_choices, pgPage, ncalls, screen>>
        ELSE Fetch(action, e, m.printed)
  /\ previews' = <<>>
  /\ UNCHANGED <<config, action, result, nempty, yielded, ids, filterVars, coverVars>>

\* ------------------------------------------------- direct positional mode
\* list(choices.values()): the keys were inserted page by page, in position order.
RECURSIVE ValuesFrom(_, _, _)
ValuesFrom(ch, i, n) ==
  IF i > n THEN <<>>
  ELSE (IF IntToStr(i) \in DOMAIN ch THEN <<ch[IntToStr(i)]>> ELSE <<>>)
         \o ValuesFrom(ch, i + 1, n)

\* Mutant: the value inserted last is left out.
ChoiceValuesButLast(ch) == ValuesFrom(ch, 0, Len(source) - 2)

ChoiceValues(ch) == ValuesFrom(ch, 0, Len(source))

InSeq(x, s) == \E j \in 1..Len(s) : s[j] = x

\* Mutant: iter_answer yields every identity it is given.
RECURSIVE IterAnswerAll(_, _)
IterAnswerAll(seen, items) ==
  IF items = <<>> THEN seen
  ELSE IterAnswerAll(Append(seen, Head(items).id), Tail(items))

\* iter_answer of MangaDexCommand.prompt over the items _return_from yields:
\* the list ids after them.
RECURSIVE IterAnswer(_, _)
IterAnswer(seen, items) ==
  IF items = <<>> THEN seen
  ELSE IF InSeq(Head(items).id, seen) THEN IterAnswer(seen, Tail(items))
  ELSE IterAnswer(Append(seen, Head(items).id), Tail(items))

\* Mutant: the two handlers of _return_from carry each other's message.
ReturnFromHandlerSwapped(exc) ==
  IF exc = "IteratorEmpty" THEN Error("Choices are out of range, try again", TRUE)
  ELSE Error("There are no more results", FALSE)

\* The handlers of the page fetch in _return_from: IteratorEmpty is fatal.
ReturnFromHandler(exc) ==
  IF exc = "IteratorEmpty" THEN Error("There are no more results", TRUE)
  ELSE Error("Choices are out of range, try again", FALSE)

\* prompt(input_pos): returns the generator of _return_from (MangaDexCommand:
\* iter_answer over it). Nothing of their bodies has run yet.
PromptDirect ==
  /\ pc = "init"
  /\ input_pos # <<>>
  /\ pc' = "gen_ready"
  /\ result' = Generator
  /\ UNCHANGED <<config, choices, text_choices, pgPage, action, answer, err, printed,
                 fatal, calls, caught, previews, screen, nreads, nempty, ncalls,
                 yielded, ids, filterVars, coverVars>>

\* _return_from up to its loop: the first page, or on_empty_error and return.
GenStart ==
  /\ pc = "gen_ready"
  /\ LET r == InsertChoices(choices, text_choices, pgPage, "next", "IteratorEmpty")
     IN /\ calls' = <<"next">>
        /\ ncalls' = ncalls + 1
        /\ choices' = r.choices
        /\ text_choices' = r.text
        /\ pgPage' = r.page
        /\ IF r.exc = "IteratorEmpty"
           THEN /\ nempty' = nempty + 1
                /\ IF OnEmptyExits(variant)
                   THEN pc' = "exit" /\ fatal' = "empty"
                   ELSE pc' = "gen_done" /\ fatal' = ""
           ELSE /\ nempty' = nempty
                /\ pc' = "gen_loop"
                /\ fatal' = ""
  /\ printed' = <<>>
  /\ caught' = ""
  /\ UNCHANGED <<config, action, answer, result, err, previews, screen, nreads,
                 yielded, ids, filterVars, coverVars>>

\* One pass of the `while True` of _return_from.
GenStep ==
  /\ pc = "gen_loop"
  /\ IF input_pos \in DOMAIN choices
     THEN /\ yielded' = Append(yielded, choices[input_pos])
          /\ ids' = IF IsMangaDex(variant)
                    THEN IterAnswer(ids, <<choices[input_pos]>>) ELSE ids
          /\ pc' = "gen_done"
          /\ calls' = <<>>
          /\ caught' = ""
          /\ printed' = <<>>
          /\ fatal' = ""
          /\ UNCHANGED <<choices, text_choices, pgPage, ncalls>>
     ELSE LET ys == IF input_pos = S_star THEN ChoiceValues(choices) ELSE <<>>
              r == InsertChoices(choices, text_choices, pgPage, "next", "IteratorEmpty")
              m == IF r.exc = "" THEN [fatal |-> "", printed |-> <<>>]
                   ELSE ReturnFromHandler(r.exc)
          IN /\ yielded' = yielded \o ys
             /\ ids' = IF IsMangaDex(variant) THEN IterAnswer(ids, ys) ELSE ids
             /\ choices' = r.choices
             /\ text_choices' = r.text
             /\ pgPage' = r.page
             /\ calls' = <<"next">>
             /\ ncalls' = ncalls + 1
             /\ caught' = r.exc
             /\ printed' = m.printed
             /\ fatal' = m.fatal
             /\ pc' = IF m.fatal # "" THEN "exit" ELSE "gen_loop"
  /\ UNCHANGED <<config, action, answer, result, err, previews, screen, nreads,
                 nempty, filterVars, coverVars>>

\* ------------------------------------------------------------------- Spec
Next ==
  \/ PromptStart
  \/ \E a \in Lines : AnswerPreview(a)
  \/ \E a \in Lines : \E e \in Raisable(pgPage) : AnswerNavigate(a, e)
  \/ \E a \in Lines : AnswerLabel(a)
  \/ \E a \in Lines : \E e \in Raisable(pgPage) : AnswerInvalid(a, e)
  \/ PromptDirect
  \/ GenStart
  \/ GenStep

Spec == Init /\ [][Next]_vars

\* The consumer of the generator keeps iterating it: prompt(input_pos) and
\* each resumption of _return_from run to their end.
FairSpec ==
  Spec /\ WF_vars(PromptDirect) /\ WF_vars(GenStart) /\ WF_vars(GenStep)

\* ----------------------------------------- SearchMangaCommand: filter parsing
S_order ==
  <<"o", "r", "d", "e", "r">>

S_createdAt ==
  <<"c", "r", "e", "a", "t", "e", "d", "A", "t">>

S_order_createdAt ==
  <<"o", "r", "d", "e", "r", "[", "c", "r", "e", "a", "t", "e", "d", "A",
    "t", "]">>

S_asc ==
  <<"a", "s", "c">>

T_order_createdAt_asc ==
  <<"o", "r", "d", "e", "r", "[", "c", "r", "e", "a", "t", "e", "d", "A",
    "t", "]", "=", "a", "s", "c">>

T_order_createdAt_desc ==
  <<"o", "r", "d", "e", "r", "[", "c", "r", "e", "a", "t", "e", "d", "A",
    "t", "]", "=", "d", "e", "s", "c">>

T_order_asc ==
  <<"o", "r", "d", "e", "r", "=", "a", "s", "c">>

T_reorder_x ==
  <<"r", "e", "o", "r", "d", "e", "r", "=", "x">>

T_tag_a ==
  <<"t", "a", "g", "=", "a">>

T_tag_b_c ==
  <<"t", "a", "g", "=", "b", ",", "c">>

T_year ==
  <<"y", "e", "a", "r">>

\* Longest list of --search-filter tokens.
MaxFilters == 2

FilterTokens ==
  {T_order_createdAt_asc, T_order_createdAt_desc, T_order_asc, T_reorder_x,
   T_tag_a, T_tag_b_c, T_year}

\* text.split(sep): the parts of text between the occurrences of sep.
RECURSIVE Split(_, _)
Split(text, sep) ==
  IF Contains(text, sep)
  THEN <<BeforeFirst(text, sep)>> \o Split(AfterFirst(text, sep), sep)
  ELSE <<text>>

\* get_key_value(text): the text before the first '=' and the text after it.
GetKeyValue(text) ==
  [key |-> BeforeFirst(text, <<"=">>),
   value |-> IF Contains(text, <<"=">>) THEN AfterFirst(text, <<"=">>) ELSE <<>>]

\* Values of the filter mapping: a str, a list of str, or (under 'order') a dict.
StrVal(t) == [kind |-> "str", v |-> <<t>>]
ListVal(ts) == [kind |-> "list", v |-> ts]
DictVal(d) == [kind |-> "dict", v |-> d]

\* split_comma_separated: a value without a comma stays a str, unless
\* single_value_to_list; one with commas becomes the list of its parts.
SplitCommaSeparated(text, single_value_to_list) ==
  IF ~Contains(text, <<",">>)
  THEN IF single_value_to_list THEN ListVal(<<text>>) ELSE StrVal(text)
  ELSE ListVal(Split(text, <<",">>))

\* d[k] = x
DictSet(d, k, x) == [y \in (DOMAIN d) \cup {k} |-> IF y = k THEN x ELSE d[y]]

\* Mutant: a key seen before gets the new value in place of the earlier ones.
ParseOneOverwrite(fk, f) ==
  LET kv == GetKeyValue(f)
  IN DictSet(fk, kv.key, SplitCommaSeparated(kv.value, FALSE))

\* One pass of `for f in filters`: a new key gets its split value, a key seen
\* before gets the new values appended to its (listified) earlier ones.
ParseOne(fk, f) ==
  LET kv == GetKeyValue(f)
  IN IF kv.key \notin DOMAIN fk
     THEN DictSet(fk, kv.key, SplitCommaSeparated(kv.value, FALSE))
     ELSE LET old == fk[kv.key]
              new_values == IF old.kind = "str" THEN <<old.v[1]>> ELSE old.v
              values == SplitCommaSeparated(kv.value, TRUE).v
          IN DictSet(fk, kv.key, ListVal(new_values \o values))

\* Mutant: only the key 'order' itself is taken for an ordering key.
OrderKeysExact(fk) == {k \in DOMAIN fk : k = S_order}

\* The keys the loop `if 'order' in key` copies into orders.
OrderKeys(fk) == {k \in DOMAIN fk : Contains(k, S_order)}

\* orders after `orders[key] = filter_kwargs[key]` for each such key.
Orders(fk) == [k \in OrderKeys(fk) |-> fk[k]]

\* Mutant: the keys of orders are not popped.
WithoutOrdersNoPop(fk, ord) == DictSet(fk, S_order, DictVal(ord))

\* filter_kwargs after `filter_kwargs.pop(key)` for each key of orders, and
\* `filter_kwargs['order'] = orders`.
WithoutOrders(fk, ord) ==
  DictSet([k \in (DOMAIN fk) \ (DOMAIN ord) |-> fk[k]], S_order, DictVal(ord))

EngineIdle ==
  /\ source = <<>>
  /\ limit = 1
  /\ variant = "Manga"
  /\ pillow = TRUE
  /\ input_pos = <<>>
  /\ pc = "unbuilt"
  /\ choices = EmptyDict
  /\ text_choices = <<>>
  /\ pgPage = 0
  /\ action = "unset"
  /\ answer = <<>>
  /\ result = None
  /\ err = ""
  /\ printed = <<>>
  /\ fatal = ""
  /\ calls = <<>>
  /\ caught = ""
  /\ previews = <<>>
  /\ screen = NoScreen
  /\ nreads = 0
  /\ nempty = 0
  /\ ncalls = 0
  /\ yielded = <<>>
  /\ ids = <<>>

FilterInit ==
  /\ EngineIdle
  /\ CoverIdle
  /\ filters \in UNION {[1..n -> FilterTokens] : n \in 0..MaxFilters}
  /\ fi = 0
  /\ filter_kwargs = EmptyDict
  /\ orders = EmptyDict
  /\ fpc = "parse"

\* One token of args.search_filter is parsed.
ParseFilter ==
  /\ fpc = "parse"
  /\ fi < Len(filters)
  /\ fi' = fi + 1
  /\ filter_kwargs' = ParseOne(filter_kwargs, filters[fi + 1])
  /\ UNCHANGED <<filters, orders, fpc, engineVars, coverVars>>

\* After the last token: the ordering keys move into orders, and the mapping is
\* handed to IteratorManga.
ExtractOrders ==
  /\ fpc = "parse"
  /\ fi = Len(filters)
  /\ orders' = Orders(filter_kwargs)
  /\ filter_kwargs' = WithoutOrders(filter_kwargs, Orders(filter_kwargs))
  /\ fpc' = "done"
  /\ UNCHANGED <<filters, fi, engineVars, coverVars>>

FilterNext == ParseFilter \/ ExtractOrders

FilterSpec == FilterInit /\ [][FilterNext]_vars

\* ---------------------------------------------------------------- CoverArt
\* A cover resource of the API: {'id': ..., 'attributes': {...}}.
Resources ==
  {("id" :> i) @@
   ("attributes" :>
      (("description" :> de) @@ ("volume" :> vo) @@ ("fileName" :> fn)
         @@ ("locale" :> lo))) :
     i \in {"c1", "c2"}, de \in {"", "front"}, vo \in {"None", "1"},
     fn \in {"a.jpg", "b.png"}, lo \in {"en", "ja"}}

\* The values given as `data`: None, the empty dict, a resource, and a dict
\* that lacks 'attributes'.
DataArgs ==
  {[none |-> TRUE, d |-> EmptyDict], [none |-> FALSE, d |-> EmptyDict],
   [none |-> FALSE, d |-> ("id" :> "c1")]}
    \cup {[none |-> FALSE, d |-> r] : r \in Resources}

CoverIds == {"None", "c1", "c2"}

\* Mutant: only a missing data argument is fetched.
NotDataNoneOnly(x) == x.none

\* `not data`: None and the empty dict are falsy.
NotData(x) == x.none \/ DOMAIN x.d = {}

\* get_cover_art(cover_id): the API's answer, {'data': resource}.
GetCoverArt(cid) == "data" :> server

\* get_language(attr['locale'])
GetLanguage(lo) == [language |-> lo]

\* CoverArt.__init__ from self.data on: the attributes it sets, up to the
\* first key that self.data lacks.
Attributes(d) ==
  IF "id" \notin DOMAIN d THEN [exc |-> "KeyError", obj |-> ("data" :> d)]
  ELSE IF "attributes" \notin DOMAIN d
  THEN [exc |-> "KeyError", obj |-> ("data" :> d) @@ ("id" :> d["id"])]
  ELSE LET attr == d["attributes"]
       IN [exc |-> "",
           obj |-> ("data" :> d) @@ ("id" :> d["id"])
                     @@ ("description" :> attr["description"])
                     @@ ("volume" :> attr["volume"])
                     @@ ("file" :> attr["fileName"])
                     @@ ("locale" :> GetLanguage(attr["locale"]))]

CoverInit ==
  /\ EngineIdle
  /\ FilterIdle
  /\ cover_id \in CoverIds
  /\ data \in DataArgs
  /\ server \in Resources
  /\ cover = EmptyDict
  /\ fetches = <<>>
  /\ cpc = "new"
  /\ cerr = ""

\* CoverArt(cover_id, data) with no usable data: the resource is fetched.
CoverArtFetch ==
  /\ cpc = "new"
  /\ NotData(data)
  /\ fetches' = Append(fetches, cover_id)
  /\ LET a == Attributes(GetCoverArt(cover_id)["data"])
     IN /\ cover' = a.obj
        /\ cerr' = a.exc
        /\ cpc' = IF a.exc = "" THEN "built" ELSE "raised"
  /\ UNCHANGED <<cover_id, data, server, engineVars, filterVars>>

\* CoverArt(cover_id, data) with data: the data is used as given.
CoverArtFromData ==
  /\ cpc = "new"
  /\ ~NotData(data)
  /\ fetches' = fetches
  /\ LET a == Attributes(data.d)
     IN /\ cover' = a.obj
        /\ cerr' = a.exc
        /\ cpc' = IF a.exc = "" THEN "built" ELSE "raised"
  /\ UNCHANGED <<cover_id, data, server, engineVars, filterVars>>

CoverNext == CoverArtFetch \/ CoverArtFromData

CoverSpec == CoverInit /\ [][CoverNext]_vars

\* ------------------------------------------------------------------ claims
\* A step that reads one line in the interactive prompt and handles it.
ReadsLine == pc = "await" /\ nreads' = nreads + 1

\* The labels of the page rendered last.
RenderedLabels == {text_choices[j][1] : j \in 1..Len(text_choices)}

\* C1: when the line read is a key of the Choice Set, prompt() returns the item
\* mapped to it (MangaDexCommand: the one-element list of its id) and calls
\* neither Paginator.next() nor Paginator.previous().
C1_LabelReturnsItem ==
  [][(ReadsLine /\ answer' \in DOMAIN choices)
       => /\ pc' = "returned"
          /\ err' = ""
          /\ calls' = <<>>
          /\ ncalls' = ncalls
          /\ pgPage' = pgPage
          /\ IF variant = "Base"
             THEN result'.kind = "item" /\ result'.val = <<choices[answer']>>
             ELSE result'.kind = "list" /\ result'.val = <<choices[answer'].id>>]_vars

\* C1 witness: MangaDexCommand returned [id] for a label of an earlier page.
C1_Witness ==
  /\ pc = "returned"
  /\ variant = "MangaDex"
  /\ answer \in DOMAIN choices
  /\ answer \notin RenderedLabels
  /\ result.kind = "list"
  /\ result.val = <<choices[answer].id>>

\* C2: a line that is no navigation command, no supported preview command and no
\* key of the Choice Set prints 'Invalid choice', calls the Paginator not at all,
\* leaves the Choice Set and the rendered page as they were, raises nothing and
\* goes back to Awaiting Input.
C2_InvalidChoiceRecoverable ==
  [][(ReadsLine /\ Dispatch(answer') = "label" /\ answer' \notin DOMAIN choices)
       => /\ printed' = <<"Invalid choice, try again">>
          /\ calls' = <<>>
          /\ ncalls' = ncalls
          /\ choices' = choices
          /\ text_choices' = text_choices
          /\ screen' = screen
          /\ err' = ""
          /\ pc' = "await"]_vars

\* The identities of s, each once, in first-seen order.
RECURSIVE FirstSeen(_)
FirstSeen(s) ==
  IF s = <<>> THEN <<>>
  ELSE LET init == SubSeq(s, 1, Len(s) - 1)
       IN IF InSeq(s[Len(s)], init) THEN FirstSeen(init)
          ELSE Append(FirstSeen(init), s[Len(s)])

IsPrefix(s, t) == Len(s) <= Len(t) /\ SubSeq(t, 1, Len(s)) = s

\* C3: MangaDexCommand.prompt('*') yields every distinct identity of the source
\* exactly once, in first-seen order: never one twice, and all of them once the
\* generator has ended.
C3_WildcardDistinct ==
  (input_pos = S_star /\ variant # "Base")
    => /\ \A i, j \in 1..Len(ids) : ids[i] = ids[j] => i = j
       /\ IsPrefix(ids, FirstSeen(source))
       /\ pc \in {"exit", "gen_done"} => ids = FirstSeen(source)

\* C3 witness: a source of several pages with a repeated identity was resolved,
\* the loop having yielded accumulated choices again.
C3_Witness ==
  /\ input_pos = S_star
  /\ variant = "MangaDex"
  /\ pc = "exit"
  /\ Len(source) > limit
  /\ Len(ids) > 1
  /\ Len(ids) < Len(source)
  /\ Len(yielded) > Len(source)
  /\ ids = FirstSeen(source)

\* C4: with an empty source the engine calls on_empty_error exactly once, reads
\* no line, fetches no other page and ends with no selection and no other
\* error, in both modes and for every class.
C4_EmptySource ==
  (Len(source) = 0 /\ pc \notin {"init", "gen_ready"})
    => /\ nempty = 1
       /\ nreads = 0
       /\ ncalls = 1
       /\ err = ""
       /\ pc \in {"returned", "gen_done", "exit"}
       /\ result.kind \in {"None", "generator"}
       /\ yielded = <<>>
       /\ ids = <<>>

\* A direct label, not '*', that no page of the non-empty source carries.
NeverCarried ==
  /\ input_pos # <<>>
  /\ input_pos # S_star
  /\ Len(source) > 0
  /\ \A i \in 0..(Len(source) - 1) : IntToStr(i) # input_pos

\* Pages of the source: ceil(Len(source) / limit).
NumPages == (Len(source) + limit - 1) \div limit

\* C5: direct positional mode with a label no page carries: next() is called
\* until it raises IteratorEmpty, the fatal 'There are no more results' is then
\* reported through the argument parser, and nothing is yielded before.
C5_MissingLabelFatal ==
  /\ [](NeverCarried => (yielded = <<>> /\ ids = <<>> /\ pc # "gen_done"))
  /\ []((NeverCarried /\ pc = "exit")
          => /\ fatal = "There are no more results"
             /\ caught = "IteratorEmpty"
             /\ ncalls = NumPages + 1
             /\ pgPage = NumPages)
  /\ ((NeverCarried /\ pc = "gen_ready") ~> (pc = "exit"))

\* C5 witness: the abort after more than one page was searched.
C5_Witness ==
  /\ NeverCarried
  /\ pc = "exit"
  /\ NumPages > 1
  /\ ncalls = NumPages + 1
  /\ fatal = "There are no more results"

\* C6: a navigation command whose page fetch fails prints a message without the
\* fatal handler, leaves the Choice Set and the rendered page as they were and
\* goes back to Awaiting Input.
C6_FailedNavigationRecoverable ==
  [][(ReadsLine /\ Dispatch(answer') \in {"next", "previous"} /\ caught' # "")
       => /\ Len(printed') = 1
          /\ fatal' = ""
          /\ err' = ""
          /\ choices' = choices
          /\ text_choices' = text_choices
          /\ screen' = screen
          /\ pgPage' = pgPage
          /\ pc' = "await"]_vars

\* C6 witness: 'previous' typed as the very first line.
C6_Witness ==
  /\ pc = "await"
  /\ nreads = 1
  /\ answer = S_previous
  /\ caught \in PreviousErrors
  /\ printed # <<>>
  /\ text_choices # <<>>

\* The inputs the prompt is said to accept.
Accepted(a) ==
  \/ a \in DOMAIN choices
  \/ a = S_next
  \/ a = S_previous
  \/ Preview(variant) /\ StartsWith(a, S_preview \o <<" ">>)

\* C7: every line other than an exact label, exactly 'next', exactly 'previous'
\* and (where supported) 'preview <label>' is rejected with a retry prompt and
\* fetches no page.
C7_OnlyExactCommands ==
  [][(ReadsLine /\ ~Accepted(answer'))
       => /\ calls' = <<>>
          /\ ncalls' = ncalls
          /\ printed' = <<"Invalid choice, try again">>
          /\ pc' = "await"]_vars

\* The label a 'preview <label>' line names.
NamedLabel(a) == Strip(SubSeq(a, Len(S_preview) + 1, Len(a)))

PreviewFrame ==
  /\ calls' = <<>>
  /\ ncalls' = ncalls
  /\ choices' = choices
  /\ pgPage' = pgPage
  /\ text_choices' = text_choices
  /\ pc' # "returned"
  /\ IF NamedLabel(answer') \in DOMAIN choices
     THEN previews' = <<choices[NamedLabel(answer')]>> /\ printed' = <<>>
     ELSE previews' = <<>> /\ printed' = <<"Invalid choice, try again">>

\* C8 as claimed: 'preview <label>' in a variant that supports preview never
\* ends the prompt and never calls the Paginator; on_preview runs once with the
\* item when the label is known, 'Invalid choice' is printed when it is not; the
\* engine is back at Awaiting Input.
C8_PreviewNeverTerminates ==
  [][(ReadsLine /\ variant \notin {"Base", "MangaDex"} /\ StartsWith(answer', S_preview))
       => (PreviewFrame /\ pc' = "await" /\ err' = "")]_vars

\* C8 amended: as claimed, except that the engine is back at Awaiting Input only
\* when on_preview returns; MangaCommand.on_preview raises PillowNotInstalled
\* without the image library, and that leaves prompt().
C8_PreviewFrame ==
  [][(ReadsLine /\ variant \notin {"Base", "MangaDex"} /\ StartsWith(answer', S_preview))
       => /\ PreviewFrame
          /\ \/ pc' = "await" /\ err' = ""
             \/ /\ pc' = "raised"
                /\ err' = "PillowNotInstalled"
                /\ ~pillow
                /\ variant \in {"Manga", "MangaLibrary"}
                /\ NamedLabel(answer') \in DOMAIN choices
          /\ (pillow \/ variant = "MDList") => pc' = "await"]_vars

\* C8 witness: a preview of a known label that came back to Awaiting Input.
C8_Witness ==
  /\ pc = "await"
  /\ variant = "Manga"
  /\ nreads > 0
  /\ StartsWith(answer, S_preview \o <<" ">>)
  /\ NamedLabel(answer) \in DOMAIN choices
  /\ previews = <<choices[NamedLabel(answer)]>>

\* C9: in a variant whose preview() returns False (BaseCommand's, which
\* MangaDexCommand inherits) on_preview is never invoked, a line beginning with
\* 'preview' gets the invalid-choice handling of any other line, and the
\* 'preview NUMBER' instruction is never rendered.
C9_NoPreviewWithoutSupport ==
  /\ [](variant \in {"Base", "MangaDex"}
          => /\ previews = <<>>
             /\ \A j \in 1..Len(screen.instructions) :
                  screen.instructions[j] # "preview NUMBER")
  /\ [][(ReadsLine /\ variant \in {"Base", "MangaDex"} /\ StartsWith(answer', S_preview))
          => /\ Len(printed') > 0
             /\ printed'[1] = "Invalid choice, try again"]_vars

\* C9 witness: 'preview <label>' with a known label, in such a variant.
C9_Witness ==
  /\ variant \in {"Base", "MangaDex"}
  /\ nreads > 0
  /\ StartsWith(answer, S_preview \o <<" ">>)
  /\ NamedLabel(answer) \in DOMAIN choices
  /\ previews = <<>>
  /\ printed # <<>>

\* The flat keys of the mapping handed to the iterator.
FlatKeys == (DOMAIN filter_kwargs) \ {S_order}

\* C10 as claimed: order[createdAt]=asc leaves the flat mapping and the ordering
\* mapping handed to the iterator is {createdAt: "asc"}.
C10_OrderUnderInnerName ==
  (fpc = "done" /\ filters = <<T_order_createdAt_asc>>)
    => /\ FlatKeys = {}
       /\ DOMAIN orders = {S_createdAt}
       /\ orders[S_createdAt] = StrVal(S_asc)

\* C10 amended: a key that contains 'order' leaves the flat mapping and enters
\* the ordering mapping under the whole key, with its parsed value: for
\* order[createdAt]=asc the ordering mapping is {"order[createdAt]": "asc"}.
C10_OrderUnderWholeKey ==
  /\ []((fpc = "done" /\ filters = <<T_order_createdAt_asc>>)
          => /\ FlatKeys = {}
             /\ DOMAIN orders = {S_order_createdAt}
             /\ orders[S_order_createdAt] = StrVal(S_asc)
             /\ filter_kwargs[S_order].kind = "dict"
             /\ filter_kwargs[S_order].v = orders)
  /\ [][(fpc = "parse" /\ fpc' = "done")
          => \A k \in DOMAIN filter_kwargs :
               Contains(k, S_order)
                 => /\ k \in DOMAIN orders'
                    /\ orders'[k] = filter_kwargs[k]
                    /\ k \notin (DOMAIN filter_kwargs') \ {S_order}]_vars

\* C10 witness: the token of the claim, parsed and extracted.
C10_Witness ==
  /\ fpc = "done"
  /\ filters = <<T_order_createdAt_asc>>
  /\ DOMAIN orders = {S_order_createdAt}
  /\ orders[S_order_createdAt] = StrVal(S_asc)
  /\ FlatKeys = {}

S_tag ==
  <<"t", "a", "g">>

\* The keys of the first n tokens.
KeysOf(n) == {GetKeyValue(filters[j]).key : j \in 1..n}

\* How many of the first n tokens carry key k.
Occurrences(k, n) == Cardinality({j \in 1..n : GetKeyValue(filters[j]).key = k})

\* The comma-separated parts of the values of key k among the first n tokens,
\* in token order.
RECURSIVE AllValues(_, _)
AllValues(k, n) ==
  IF n = 0 THEN <<>>
  ELSE AllValues(k, n - 1)
         \o (IF GetKeyValue(filters[n]).key = k
             THEN Split(GetKeyValue(filters[n]).value, <<",">>)
             ELSE <<>>)

\* C11: while the tokens are parsed, a key that occurred several times is mapped
\* to one list of the comma-split values of all its occurrences in token order,
\* and a key that occurred once with a single value is mapped to that str.
C11_RepeatedKeysAccumulate ==
  (fpc = "parse")
    => /\ DOMAIN filter_kwargs = KeysOf(fi)
       /\ \A k \in KeysOf(fi) :
            IF Occurrences(k, fi) = 1 /\ Len(AllValues(k, fi)) = 1
            THEN /\ filter_kwargs[k].kind = "str"
                 /\ filter_kwargs[k].v = AllValues(k, fi)
            ELSE /\ filter_kwargs[k].kind = "list"
                 /\ filter_kwargs[k].v = AllValues(k, fi)

\* C11 witness: tag=a then tag=b,c: the str of the first token became a list.
C11_Witness ==
  /\ fpc = "parse"
  /\ fi = 2
  /\ filters[1] = T_tag_a
  /\ filters[2] = T_tag_b_c
  /\ filter_kwargs[S_tag] = ListVal(<<<<"a">>, <<"b">>, <<"c">>>>)

\* A direct label, not '*', that some page of the source carries.
Carried ==
  /\ input_pos # <<>>
  /\ input_pos # S_star
  /\ \E i \in 0..(Len(source) - 1) : IntToStr(i) = input_pos

\* The position the direct label names, and the page that carries it.
PosOf == CHOOSE i \in 0..(Len(source) - 1) : IntToStr(i) = input_pos
PageOf == (PosOf \div limit) + 1

\* C12: direct positional mode with a label some page carries: next() is called
\* until the first page with the label is merged, then exactly the item mapped
\* to the label is yielded and the generator ends; no later page is fetched,
\* nothing else is yielded and the fatal handler is not called.
C12_FoundLabelStops ==
  /\ [](Carried
          => /\ fatal = ""
             /\ pc # "exit"
             /\ ncalls <= PageOf
             /\ pgPage <= PageOf
             /\ Len(yielded) <= 1
             /\ (yielded # <<>> => ncalls = PageOf))
  /\ []((Carried /\ pc = "gen_done")
          => /\ yielded = <<Item(PosOf + 1)>>
             /\ ncalls = PageOf
             /\ pgPage = PageOf
             /\ (variant # "Base" => ids = <<source[PosOf + 1]>>))
  /\ ((Carried /\ pc = "gen_ready") ~> (pc = "gen_done"))

\* C12 witness: the label was on the second of three pages.
C12_Witness ==
  /\ Carried
  /\ pc = "gen_done"
  /\ PageOf = 2
  /\ NumPages > 2
  /\ ncalls = 2
  /\ yielded = <<Item(PosOf + 1)>>

\* C13: within one session the Choice Set never shrinks: every label in it stays
\* in it, mapped to the same item, whatever the step.
C13_ChoicesNeverShrink ==
  [][\A k \in DOMAIN choices : k \in DOMAIN choices' /\ choices'[k] = choices[k]]_vars

\* C13 witness: after 'next' and a successful 'previous' the Choice Set holds
\* more than the page shown.
C13_Witness ==
  /\ pc = "await"
  /\ nreads >= 2
  /\ answer = S_previous
  /\ caught = ""
  /\ pgPage = 1
  /\ \E k \in DOMAIN choices : k \notin RenderedLabels

\* C14: a manga preview of a known label without the image library is fatal:
\* PillowNotInstalled leaves prompt(), no selection is returned, and the prompt
\* reads no further line.
C14_MissingPillowFatal ==
  /\ [][(ReadsLine /\ variant \in {"Manga", "MangaLibrary"} /\ ~pillow
           /\ StartsWith(answer', S_preview)
           /\ NamedLabel(answer') \in DOMAIN choices)
          => /\ pc' = "raised"
             /\ err' = "PillowNotInstalled"
             /\ previews' = <<choices[NamedLabel(answer')]>>
             /\ printed' = <<>>
             /\ result' = None
             /\ screen' = screen]_vars
  /\ [][pc = "raised" => (pc' = "raised" /\ nreads' = nreads /\ result' = result)]_vars

\* C14 witness: the exception left the prompt after an earlier line was handled.
C14_Witness ==
  /\ pc = "raised"
  /\ err = "PillowNotInstalled"
  /\ variant = "Manga"
  /\ ~pillow
  /\ nreads >= 2
  /\ result = None
  /\ previews = <<choices[NamedLabel(answer)]>>

\* Wildcard resolution over a non-empty source.
Wildcard == input_pos = S_star /\ Len(source) > 0

\* Every item of the source is among those yielded.
AllYielded == \A i \in 1..Len(source) : InSeq(Item(i), yielded)

\* C15: wildcard resolution over a finite non-empty source never ends normally:
\* after the last page is merged and every item yielded, the next fetch raises
\* IteratorEmpty and the fatal 'There are no more results' is reported; the
\* abort comes only after every distinct identity has been yielded.
C15_WildcardEndsFatal ==
  /\ [](Wildcard => pc # "gen_done")
  /\ []((Wildcard /\ pc = "exit")
          => /\ fatal = "There are no more results"
             /\ caught = "IteratorEmpty"
             /\ pgPage = NumPages
             /\ ncalls = NumPages + 1
             /\ AllYielded
             /\ (variant # "Base" => ids = FirstSeen(source)))
  /\ ((Wildcard /\ pc = "gen_ready") ~> (pc = "exit"))

\* C15 witness: the abort after a source of several pages was yielded whole.
C15_Witness ==
  /\ Wildcard
  /\ pc = "exit"
  /\ variant = "Base"
  /\ NumPages > 1
  /\ AllYielded
  /\ fatal = "There are no more results"

\* C16: at every Awaiting Input state the rendered choice lines are the pairs of
\* the page fetched last with success, and each rendered pair is in the Choice
\* Set with the same item.
C16_RenderedPageSelectable ==
  (pc = "await")
    => /\ Len(screen.choices) = Len(PagePairs(pgPage))
       /\ \A j \in 1..Len(screen.choices) :
            /\ screen.choices[j][1] = IntToStr(PagePairs(pgPage)[j][1])
            /\ screen.choices[j][2] = PagePairs(pgPage)[j][2]
            /\ screen.choices[j][1] \in DOMAIN choices
            /\ choices[screen.choices[j][1]] = screen.choices[j][2]
       /\ screen.choices = text_choices

\* C16 witness: a later page is shown after a failed fetch, and a label of an
\* earlier page is in the Choice Set without being shown.
C16_Witness ==
  /\ pc = "await"
  /\ pgPage > 1
  /\ caught = "IteratorEmpty"
  /\ screen.choices # <<>>
  /\ \E k \in DOMAIN choices :
       k \notin {screen.choices[j][1] : j \in 1..Len(screen.choices)}

\* C17: the mapping handed to the iterator has 'order' mapped to the ordering
\* mapping (empty when no key had 'order' in it), has no other key with 'order'
\* in it, and keeps every other supplied key with its parsed value.
C17_FinalFilterMapping ==
  /\ [][(fpc = "parse" /\ fpc' = "done")
          => /\ S_order \in DOMAIN filter_kwargs'
             /\ filter_kwargs'[S_order].kind = "dict"
             /\ filter_kwargs'[S_order].v = orders'
             /\ ((\A k \in KeysOf(Len(filters)) : ~Contains(k, S_order))
                   => orders' = EmptyDict)
             /\ \A k \in (DOMAIN filter_kwargs') \ {S_order} : ~Contains(k, S_order)
             /\ \A k \in KeysOf(Len(filters)) :
                  ~Contains(k, S_order)
                    => /\ k \in DOMAIN filter_kwargs'
                       /\ filter_kwargs'[k] = filter_kwargs[k]]_vars
  /\ [](fpc = "done"
          => /\ S_order \in DOMAIN filter_kwargs
             /\ filter_kwargs[S_order].kind = "dict"
             /\ \A k \in FlatKeys : ~Contains(k, S_order) /\ k \in KeysOf(Len(filters)))

\* C17 witness: a key with 'order' inside it and a plain key were supplied.
C17_Witness ==
  /\ fpc = "done"
  /\ Len(filters) = 2
  /\ filters[1] = T_reorder_x
  /\ filters[2] = T_tag_a
  /\ FlatKeys = {S_tag}
  /\ filter_kwargs[S_tag] = StrVal(<<"a">>)
  /\ Cardinality(DOMAIN orders) = 1

\* The data argument is absent or falsy.
AbsentOrFalsy == data.none \/ data.d = EmptyDict

\* The resource the object is built from.
DataUsed == IF AbsentOrFalsy THEN server ELSE data.d

\* C18: CoverArt fetches through get_cover_art(cover_id) if and only if the data
\* argument is absent or falsy, and id, description, volume and file are the
\* 'id' field and the 'description', 'volume' and 'fileName' attributes of the
\* data used.
C18_CoverArtFields ==
  (cpc \in {"built", "raised"})
    => /\ (AbsentOrFalsy => fetches = <<cover_id>>)
       /\ (~AbsentOrFalsy => fetches = <<>>)
       /\ (cpc = "built"
             => /\ cover["data"] = DataUsed
                /\ cover["id"] = DataUsed["id"]
                /\ cover["description"] = DataUsed["attributes"]["description"]
                /\ cover["volume"] = DataUsed["attributes"]["volume"]
                /\ cover["file"] = DataUsed["attributes"]["fileName"])
       /\ (cpc = "raised" => ~AbsentOrFalsy /\ "attributes" \notin DOMAIN data.d)

\* C18 witness: an empty dict given as data was replaced by the fetched resource.
C18_Witness ==
  /\ cpc = "built"
  /\ ~data.none
  /\ data.d = EmptyDict
  /\ cover_id = "c2"
  /\ fetches = <<"c2">>
  /\ cover["file"] = server["attributes"]["fileName"]

====
